---- MODULE Spec2Model ----
(***************************************************************************)
(* One chapter-generation run of the YouTube chapter generator, for each   *)
(* of its four command-line entry points:                                  *)
(*   "youtube"    generate_youtube_chapters.py  (inference + Snapper)      *)
(*   "enhanced"   src/main_enhanced.py          (inference | flat fallback)*)
(*   "main"       src/main.py                   (inference | flat fallback)*)
(*   "structured" generate_structured_chapters.py (intro + Q + closing)    *)
(*                                                                         *)
(* Times of transcript segments are kept in milliseconds (the VTT parser   *)
(* and Whisper give fractional seconds); a timestamp text "HH:MM:SS" is    *)
(* kept as the sequence of its colon-separated fields; a title or a        *)
(* segment text is a sequence of one-character strings.                    *)
(***************************************************************************)
EXTENDS Integers, Sequences, FiniteSets, TLC

VARIABLES
    entry,             \* which script runs
    requested,         \* args.chapters / args.questions
    pc,                \* position of main(): "start", "acquired", "inferred", "snapped",
                       \* "raised" (an exception is propagating), "done";
                       \* "validated" once the request has passed the checks
    transcript,        \* list of segments [start, text]
    duration,          \* info.get('duration', 0), whole seconds
    response,          \* what the external inference call did
    result,            \* value returned by the inference adapter to main()
    aligned,           \* snap_timestamps_to_transcript: local list before deduplication
    aligned_chapters,  \* snap_timestamps_to_transcript: returned list
    chapters,          \* the chapter lines written to the output file
    path,              \* "none", "inference", "fallback"
    outcome,           \* "running", "written", "rejected", "no_transcript", "failed", "error"
    url,               \* the source URL of the request
    via_web,           \* the script was started by the web endpoint /api/generate
    requests,          \* number of chapter-inference requests sent so far
    audio_file,        \* the temporary audio file: "none", "present", "removed"
    u_op,              \* the function applied on its own: "none" before it is applied
    u_in,              \* its argument
    u_out,             \* its result
    chapters_dir,      \* the files of the directory chapters/: name and writing run
    web                \* the requests of /api/generate being served

unitvars == <<u_op, u_in, u_out>>

runvars == <<entry, requested, pc, transcript, duration, response, result,
             aligned, aligned_chapters, chapters, path, outcome, url, via_web, requests,
             audio_file>>

webvars == <<chapters_dir, web>>

vars == <<runvars, unitvars, webvars>>

-----------------------------------------------------------------------------
(* Bounds of the model and constants of the program *)

MaxRequested == 3
MaxCands == 3

MsPerSecond == 1000
MaxTitleLen == 120
MaxTextLen == 100
PlatformMax == 100
MinFlatChapters == 10
SecondsPerChapter == 180
MainTarget == 100
WebMinChapters == 1
WebMaxChapters == 200
IntroCapSeconds == 120
ClosingSeconds == 60

-----------------------------------------------------------------------------
(* Sequence helpers *)

Min(a, b) == IF a <= b THEN a ELSE b
Max(a, b) == IF a >= b THEN a ELSE b
Abs(x) == IF x < 0 THEN -x ELSE x

\* Python seq[:n], negative n included
SliceTo(seq, n) ==
    IF n >= 0 THEN SubSeq(seq, 1, Min(n, Len(seq)))
    ELSE SubSeq(seq, 1, Max(0, Len(seq) + n))

RECURSIVE Repeat(_, _)
Repeat(s, n) == IF n <= 0 THEN <<>> ELSE s \o Repeat(s, n - 1)

RECURSIVE JoinWords(_)
\* ' '.join(words)
JoinWords(words) ==
    IF Len(words) = 0 THEN <<>>
    ELSE IF Len(words) = 1 THEN words[1]
    ELSE words[1] \o <<" ">> \o JoinWords(Tail(words))

\* the whitespace str.strip() removes, as far as the texts of the model go
Whitespace == {" ", "\n"}

RECURSIVE LStrip(_)
LStrip(s) == IF Len(s) > 0 /\ s[1] \in Whitespace THEN LStrip(Tail(s)) ELSE s

RECURSIVE RStrip(_)
RStrip(s) ==
    IF Len(s) > 0 /\ s[Len(s)] \in Whitespace THEN RStrip(SubSeq(s, 1, Len(s) - 1)) ELSE s

\* str.strip()
Strip(s) == LStrip(RStrip(s))

-----------------------------------------------------------------------------
(* Texts used by the model *)

\* the character class [A-Za-z0-9'\-] of the title pattern
WordChars ==
    {"A","B","C","D","E","F","G","H","I","J","K","L","M",
     "N","O","P","Q","R","S","T","U","V","W","X","Y","Z",
     "a","b","c","d","e","f","g","h","i","j","k","l","m",
     "n","o","p","q","r","s","t","u","v","w","x","y","z",
     "0","1","2","3","4","5","6","7","8","9","'","-"}

IsWordChar(c) == c \in WordChars

T_Introduction == <<"I","n","t","r","o","d","u","c","t","i","o","n">>
T_TopicA == <<"T","o","p","i","c"," ","A">>
T_TopicADup == <<"T","o","p","i","c"," ","A"," ","D","u","p">>
T_Outro == <<"O","u","t","r","o">>
T_Chapter == <<"C","h","a","p","t","e","r">>
T_Closing == <<"C","l","o","s","i","n","g"," ","R","e","m","a","r","k","s">>
T_Messy == <<" ","Q",":"," "," ","d","o","n","'","t","!"," ","x","-","1"," ">>
T_Long == Repeat(<<"a","b"," ">>, 5)
T_Punct == <<"?","!"," ">>

\* str(n) for n >= 0, as characters
DigitChar(d) == <<"0","1","2","3","4","5","6","7","8","9">>[d + 1]

RECURSIVE IntChars(_)
IntChars(n) == IF n < 10 THEN <<DigitChar(n)>> ELSE IntChars(n \div 10) \o <<DigitChar(n % 10)>>

-----------------------------------------------------------------------------
(* Timestamps *)

Field(n) == [isint |-> TRUE, val |-> n]
Junk == [isint |-> FALSE, val |-> 0]

\* format_time with the hours wrapped at a day
format_time_WrapDay(ms) ==
    LET h == (ms \div (3600 * MsPerSecond)) % 24
        m == (ms % (3600 * MsPerSecond)) \div (60 * MsPerSecond)
        s == (ms % (60 * MsPerSecond)) \div MsPerSecond
    IN  <<Field(h), Field(m), Field(s)>>

\* format_time(seconds), the argument given in milliseconds; the zero padding
\* of the two-digit fields is not kept
format_time(ms) ==
    LET h == ms \div (3600 * MsPerSecond)
        m == (ms % (3600 * MsPerSecond)) \div (60 * MsPerSecond)
        s == (ms % (60 * MsPerSecond)) \div MsPerSecond
    IN  <<Field(h), Field(m), Field(s)>>

\* mutation: a two-field timestamp is read as MM:SS instead of counting as 0
ParseTimestamp_MinSec(ts) ==
    IF Len(ts) = 3 /\ \A i \in 1..3 : ts[i].isint
    THEN ts[1].val * 3600 + ts[2].val * 60 + ts[3].val
    ELSE IF Len(ts) = 2 /\ \A i \in 1..2 : ts[i].isint
    THEN ts[1].val * 60 + ts[2].val
    ELSE 0

\* h, m, s = map(int, ts.split(':')); t = h*3600 + m*60 + s; except: t = 0
ParseTimestamp(ts) ==
    IF Len(ts) = 3 /\ \A i \in 1..3 : ts[i].isint
    THEN ts[1].val * 3600 + ts[2].val * 60 + ts[3].val
    ELSE 0

TS_Zero == <<Field(0), Field(0), Field(0)>>

-----------------------------------------------------------------------------
(* Title normalisation of the Snapper *)

RECURSIVE Tokens(_, _)
\* re.findall(r"[A-Za-z0-9'\-]+", s): the maximal runs of word characters
Tokens(s, cur) ==
    LET flush == IF cur = <<>> THEN <<>> ELSE <<cur>>
    IN  IF Len(s) = 0 THEN flush
        ELSE IF IsWordChar(s[1]) THEN Tokens(Tail(s), Append(cur, s[1]))
        ELSE flush \o Tokens(Tail(s), <<>>)

\* ch.get('title', 'Chapter')
TitleOf(ch) == IF ch.has_title THEN ch.title ELSE T_Chapter

\* ch.get('timestamp', '00:00:00')
TimestampOf(ch) == IF ch.has_ts THEN ch.ts ELSE TS_Zero

NormalizeTitle(ch) ==
    Strip(SliceTo(JoinWords(Tokens(TitleOf(ch), <<>>)), MaxTitleLen))

-----------------------------------------------------------------------------
(* Timestamp Snapper: snap_timestamps_to_transcript *)

\* starts = [seg['start'] for seg in transcript]
Starts(tr) == [i \in 1..Len(tr) |-> tr[i].start]

RECURSIVE BisectLoop(_, _, _, _)
\* the loop of bisect.bisect_right(a, x), lo and hi 0-based
BisectLoop(a, x, lo, hi) ==
    IF lo < hi
    THEN LET mid == (lo + hi) \div 2
         IN  IF x < a[mid + 1] THEN BisectLoop(a, x, lo, mid)
             ELSE BisectLoop(a, x, mid + 1, hi)
    ELSE lo

bisect_right(a, x) == BisectLoop(a, x, 0, Len(a))

\* mutation: the index of the segment start nearest to t, before or after it
SnapIndex_Nearest(starts, t) ==
    (CHOOSE i \in 1..Len(starts) :
        \A j \in 1..Len(starts) :
            \/ Abs(starts[i] - t * MsPerSecond) < Abs(starts[j] - t * MsPerSecond)
            \/ Abs(starts[i] - t * MsPerSecond) = Abs(starts[j] - t * MsPerSecond) /\ i <= j) - 1

\* mutation: the insertion point itself is taken, which is the segment after
\* the one sought (the last segment when there is none after)
SnapIndex_Next(starts, t) ==
    LET idx == bisect_right(starts, t * MsPerSecond)
    IN  IF idx > Len(starts) - 1 THEN Len(starts) - 1 ELSE idx

\* idx = bisect_right(starts, t) - 1; if idx < 0: idx = 0   (0-based index)
SnapIndex(starts, t) ==
    LET idx == bisect_right(starts, t * MsPerSecond) - 1
    IN  IF idx < 0 THEN 0 ELSE idx

\* mutation: the parsed time is kept as it is, not snapped
SnapOne_NoSnap(ch, starts) ==
    <<ParseTimestamp(TimestampOf(ch)) * MsPerSecond, NormalizeTitle(ch)>>

\* one pass of the loop over the candidates: (snap, title)
SnapOne(ch, starts) ==
    <<starts[SnapIndex(starts, ParseTimestamp(TimestampOf(ch))) + 1], NormalizeTitle(ch)>>

\* aligned: one (snap, title) pair per candidate, in candidate order
AlignAll(cands, tr) == [i \in 1..Len(cands) |-> SnapOne(cands[i], Starts(tr))]

RECURSIVE UniqueLoop(_, _, _)
\* the seen/unique loop: the first pair of each time is kept
UniqueLoop(al, seen, unique) ==
    IF Len(al) = 0 THEN unique
    ELSE IF al[1][1] \in seen THEN UniqueLoop(Tail(al), seen, unique)
    ELSE UniqueLoop(Tail(al), seen \cup {al[1][1]}, Append(unique, al[1]))

\* mutation: no deduplication
Unique_KeepAll(al) == al

\* mutation: the last pair of each time is kept, not the first
Unique_KeepLast(al) ==
    LET rev(l) == [i \in 1..Len(l) |-> l[Len(l) + 1 - i]]
    IN  rev(UniqueLoop(rev(al), {}, <<>>))

Unique(al) == UniqueLoop(al, {}, <<>>)

RECURSIVE InsertByTime(_, _)
InsertByTime(sorted, p) ==
    IF Len(sorted) = 0 THEN <<p>>
    ELSE IF p[1] < sorted[1][1] THEN <<p>> \o sorted
    ELSE <<sorted[1]>> \o InsertByTime(Tail(sorted), p)

RECURSIVE SortByTime(_)
\* unique.sort(key=lambda x: x[0]): a stable ascending sort
SortByTime(l) ==
    IF Len(l) = 0 THEN <<>>
    ELSE InsertByTime(SortByTime(SubSeq(l, 1, Len(l) - 1)), l[Len(l)])

\* the value snap_timestamps_to_transcript returns for the list `aligned`
SnapResult(al) == SortByTime(Unique(al))

\* mutation: the list is not cut to the requested count
Truncate_None(ac, n) == ac

\* aligned_chapters[:args.chapters]
Truncate(ac, n) == SliceTo(ac, n)

-----------------------------------------------------------------------------
(* Fallback Partitioner *)

\* a chapter as the scripts hold it before writing: {"timestamp": ..., "title": ...}
ChapterDict(ts, title) == [has_ts |-> TRUE, ts |-> ts, has_title |-> TRUE, title |-> title]

\* a written chapter line f"{timestamp} {title}"
Line(ts, title) == [timestamp |-> ts, title |-> title]

\* target_chapters of the flat fallback
FlatTarget(e, d) ==
    IF e = "main" THEN MainTarget
    ELSE Min(PlatformMax, Max(MinFlatChapters, d \div SecondsPerChapter))

RECURSIVE ClosestLoop(_, _, _, _, _)
\* min(transcript, key=lambda x: abs(x['start'] - chapter_time)) with
\* chapter_time = i * duration / target: the first segment of least distance.
\* Distances are compared exactly, scaled by target * MsPerSecond.
ClosestLoop(tr, k, best, i_d, target) ==
    IF k > Len(tr) THEN tr[best]
    ELSE IF Abs(tr[k].start * target - i_d * MsPerSecond)
            < Abs(tr[best].start * target - i_d * MsPerSecond)
         THEN ClosestLoop(tr, k + 1, k, i_d, target)
         ELSE ClosestLoop(tr, k + 1, best, i_d, target)

ClosestEntry(tr, i, d, target) == ClosestLoop(tr, 2, 1, i * d, target)

\* the chapter the loop appends for i in range(1, target_chapters)
FlatChapter(tr, i, d, target) ==
    LET closest_entry == ClosestEntry(tr, i, d, target)
    IN  Line(format_time(closest_entry.start),
             SliceTo(Strip(closest_entry.text), MaxTextLen))

\* mutation: the loop runs one slice too far, range(1, target + 1)
FlatFallback_ExtraSlice(e, tr, d) ==
    LET target == FlatTarget(e, d)
    IN  <<Line(TS_Zero, T_Introduction)>>
        \o [i \in 1..target |-> FlatChapter(tr, i, d, target)]

\* the flat fallback of main(): "00:00:00 Introduction", then range(1, target)
FlatFallback(e, tr, d) ==
    LET target == FlatTarget(e, d)
    IN  <<Line(TS_Zero, T_Introduction)>>
        \o [i \in 1..(target - 1) |-> FlatChapter(tr, i, d, target)]

\* intro_end = min(duration * 0.05, 120), in twentieths of a millisecond
IntroEnd20(d) == Min(d, 20 * IntroCapSeconds * MsPerSecond)

\* ClosingStart20 taking the smaller of the two closing starts
ClosingStart20_Min(d) == Min(20 * (d - ClosingSeconds * MsPerSecond), 19 * d)

\* closing_start = max(duration - 60, duration * 0.95), in twentieths of a millisecond
ClosingStart20(d) == Max(20 * (d - ClosingSeconds * MsPerSecond), 19 * d)

\* QStart with the question slots laid out from 0 instead of from intro_end
QStart_FromZero(d, q, i) ==
    (i * (ClosingStart20(d) - IntroEnd20(d))) \div (20 * q)

\* q_start = intro_end + i * question_length, floored to milliseconds (q > 0)
QStart(d, q, i) ==
    (q * IntroEnd20(d) + i * (ClosingStart20(d) - IntroEnd20(d))) \div (20 * q)

QuestionTitle(i) ==
    <<"Q">> \o IntChars(i + 1) \o <<":"," ","T","o","p","i","c"," ">> \o IntChars(i + 1)

\* question_duration / structure['questions'] raises ZeroDivisionError
StructuredFallbackRaises(tr, q) == tr # <<>> /\ q = 0

\* mutation: the closing chapter is not appended
StructuredFallback_NoClosing(tr, q) ==
    IF tr = <<>> THEN <<>>
    ELSE LET d == tr[Len(tr)].start
         IN  <<ChapterDict(TS_Zero, T_Introduction)>>
             \o [k \in 1..q |-> ChapterDict(format_time(QStart(d, q, k - 1)), QuestionTitle(k - 1))]

\* create_fallback_structured_chapters(transcript, structure), when it returns
StructuredFallback(tr, q) ==
    IF tr = <<>> THEN <<>>
    ELSE LET d == tr[Len(tr)].start
         IN  <<ChapterDict(TS_Zero, T_Introduction)>>
             \o [k \in 1..q |-> ChapterDict(format_time(QStart(d, q, k - 1)), QuestionTitle(k - 1))]
             \o <<ChapterDict(format_time(ClosingStart20(d) \div 20), T_Closing)>>

-----------------------------------------------------------------------------
(* Inputs of a run *)

Entries == {"youtube", "enhanced", "main", "structured"}

Requested == 0..MaxRequested

\* the counts a request may carry: the web endpoint starts
\* generate_youtube_chapters.py only, and one count above its maximum is tried there
RequestedFor(e) ==
    IF e = "youtube" THEN Requested \cup {WebMaxChapters + 1} ELSE Requested

\* a URL, by what the scripts test of it: whether it is empty, whether it holds
\* "v=" or "youtu.be/", and whether validate_youtube_url matches it
U_Empty == [empty |-> TRUE, has_v |-> FALSE, has_short |-> FALSE, valid_format |-> FALSE]
U_Watch == [empty |-> FALSE, has_v |-> TRUE, has_short |-> FALSE, valid_format |-> TRUE]

Urls == {U_Empty, U_Watch}

\* get_video_id(url) is None
NoVideoId(u) == ~u.has_v /\ ~u.has_short

\* app.py, generate_chapters: the checks made before the script is started
WebRejects(u, n) ==
    \/ u.empty
    \/ ~u.valid_format
    \/ n < WebMinChapters \/ n > WebMaxChapters
    \/ NoVideoId(u)

SegTexts ==
    << <<"i","n","t","r","o">>,
       <<" ","t","o","p","i","c"," ","a"," ">>,
       T_Long,
       <<"o","u","t","r","o">> >>

\* a transcript with the given segment starts (milliseconds)
Segs(starts) ==
    [i \in 1..Len(starts) |->
        [start |-> starts[i], text |-> SegTexts[((i - 1) % Len(SegTexts)) + 1]]]

\* segment starts are non-decreasing in every transcript
Transcripts ==
    { Segs(<<>>),
      Segs(<<0, 60000, 125000, 300000>>),
      Segs(<<1500, 60400, 60700>>),
      Segs(<<5000, 5000, 90000>>),
      Segs(<<0, 600000>>),
      Segs(<<0>>),
      Segs(<<1500, 1700>>) }

\* info.get('duration', 0), read by the flat fallback only
Durations(e) == IF e \in {"enhanced", "main"} THEN {0, 600, 3600, 19800} ELSE {0}

Cand(ts, title) == ChapterDict(ts, title)

CandPool ==
    { Cand(TS_Zero, T_Messy),
      Cand(<<Field(0), Field(1), Field(10)>>, T_TopicA),
      Cand(<<Field(0), Field(1), Field(10)>>, T_TopicADup),
      Cand(<<Field(0), Field(5), Field(10)>>, T_Outro),
      Cand(<<Field(1), Field(10)>>, T_Long),
      [has_ts |-> FALSE, ts |-> <<>>, has_title |-> FALSE, title |-> <<>>],
      Cand(<<Junk>>, T_Punct),
      Cand(<<Field(0), Field(5), Field(10)>>, <<>>) }

RECURSIVE ListsUpTo(_, _)
\* every list of at most n elements of pool
ListsUpTo(pool, n) ==
    IF n = 0 THEN {<<>>}
    ELSE LET shorter == ListsUpTo(pool, n - 1)
         IN  shorter \cup {Append(l, c) : l \in shorter, c \in pool}

FailureKinds == {"transport_error", "no_json", "bad_json", "no_chapters_key"}

\* what the external text-generation call does
Responses ==
    {[kind |-> k, items |-> <<>>] : k \in FailureKinds}
    \cup {[kind |-> "ok", items |-> l] : l \in ListsUpTo(CandPool, MaxCands)}

NoResponse == [kind |-> "none", items |-> <<>>]

None == [isnone |-> TRUE, items |-> <<>>]
ListOf(l) == [isnone |-> FALSE, items |-> l]

\* Python truth value of the adapter's return value
Truthy(r) == ~r.isnone /\ Len(r.items) > 0

-----------------------------------------------------------------------------
(* The run *)

Init ==
    /\ entry \in Entries
    /\ requested \in RequestedFor(entry)
    /\ url \in Urls
    /\ via_web \in (IF entry = "youtube" THEN BOOLEAN ELSE {FALSE})
    /\ requests = 0
    /\ audio_file = "none"
    /\ u_op = "none"
    /\ u_in = <<>>
    /\ u_out = <<>>
    /\ chapters_dir = {}
    /\ web = <<>>
    /\ pc = "start"
    /\ transcript = <<>>
    /\ duration = 0
    /\ response = NoResponse
    /\ result = None
    /\ aligned = <<>>
    /\ aligned_chapters = <<>>
    /\ chapters = <<>>
    /\ path = "none"
    /\ outcome = "running"

\* the checks made before anything is downloaded: those of the web endpoint when
\* it starts the script, then main()'s "if not video_id: ... return"; main()
\* makes no check of the requested count
Validate ==
    /\ pc = "start"
    /\ IF (via_web /\ WebRejects(url, requested)) \/ NoVideoId(url)
       THEN pc' = "done" /\ outcome' = "rejected"
       ELSE pc' = "validated" /\ outcome' = outcome
    /\ UNCHANGED <<url, via_web, requests, audio_file, unitvars, webvars>>
    /\ UNCHANGED <<entry, requested, transcript, duration, response, result, aligned,
                   aligned_chapters, chapters, path>>

\* where the transcript comes from: generate_youtube_chapters.py always downloads
\* the audio and transcribes it; main_enhanced.py and
\* generate_structured_chapters.py parse the subtitle file when it gives a
\* transcript and transcribe the audio otherwise; main.py reads subtitles only
Sources(e) ==
    IF e = "youtube" THEN {"audio"}
    ELSE IF e = "main" THEN {"subtitles"}
    ELSE {"subtitles", "audio"}

\* the `finally` clause of generate_youtube_chapters.main removes the audio file
\* when the run ends; the `finally` clauses of the other scripts remove the
\* subtitle file only
AudioAtExit(e, a) == IF e = "youtube" /\ a = "present" THEN "removed" ELSE a

\* the audio file once the transcript is there: main_enhanced.py and
\* generate_structured_chapters.py call os.remove(audio_file) right after
\* transcribe_with_whisper returns; generate_youtube_chapters.py keeps the file
\* until main() ends, which it does at once when the transcript is empty
AudioAfterTranscription(e, src, ends) ==
    IF src = "subtitles" THEN "none"
    ELSE IF e = "youtube" THEN (IF ends THEN AudioAtExit(e, "present") ELSE "present")
    ELSE "removed"

\* an exception before the transcript is there: raised by the download or the
\* subtitle parser (no audio file) or by transcribe_with_whisper (the audio file
\* has been downloaded)
AudioWhenAcquireRaises(e) ==
    IF "audio" \in Sources(e) THEN {"none", "present"} ELSE {"none"}

\* Acquire without the `if not transcript: return` check
Acquire_NoEmptyCheck ==
    /\ pc = "validated"
    /\ \/ \E tr \in Transcripts, d \in Durations(entry), src \in Sources(entry) :
             /\ src = "subtitles" => (tr # <<>> \/ entry = "main")
             /\ transcript' = tr
             /\ duration' = d
             /\ pc' = "acquired"
             /\ outcome' = outcome
             /\ audio_file' = AudioAfterTranscription(entry, src, FALSE)
       \/ \E a \in AudioWhenAcquireRaises(entry) :
             /\ audio_file' = a
             /\ pc' = "raised"
             /\ UNCHANGED <<transcript, duration, outcome>>
    /\ UNCHANGED <<url, via_web, requests, unitvars, webvars>>
    /\ UNCHANGED <<entry, requested, response, result, aligned, aligned_chapters,
                   chapters, path>>

\* main(): video info and transcript are obtained; an empty transcript ends the run
Acquire ==
    /\ pc = "validated"
    /\ \/ \E tr \in Transcripts, d \in Durations(entry), src \in Sources(entry) :
             /\ src = "subtitles" => (tr # <<>> \/ entry = "main")
             /\ transcript' = tr
             /\ duration' = d
             /\ IF tr = <<>>
                THEN pc' = "done" /\ outcome' = "no_transcript"
                ELSE pc' = "acquired" /\ outcome' = outcome
             /\ audio_file' = AudioAfterTranscription(entry, src, tr = <<>>)
       \/ \E a \in AudioWhenAcquireRaises(entry) :
             /\ audio_file' = a
             /\ pc' = "raised"
             /\ UNCHANGED <<transcript, duration, outcome>>
    /\ UNCHANGED <<url, via_web, requests, unitvars, webvars>>
    /\ UNCHANGED <<entry, requested, response, result, aligned, aligned_chapters,
                   chapters, path>>

\* generate_ai_chapters / analyze_transcript_with_ai: any exception gives None
AdapterResult(r) == IF r.kind = "ok" THEN ListOf(r.items) ELSE None

\* mutation: a failed call is tried again, up to three requests
InferFlat_Retry ==
    /\ pc = "acquired"
    /\ entry \in {"youtube", "enhanced", "main"}
    /\ \E r \in Responses :
          /\ response' = r
          /\ result' = AdapterResult(r)
          /\ pc' = IF r.kind # "ok" /\ requests < 2 THEN "acquired" ELSE "inferred"
    /\ requests' = requests + 1
    /\ UNCHANGED <<url, via_web, audio_file, unitvars, webvars>>
    /\ UNCHANGED <<entry, requested, transcript, duration, aligned, aligned_chapters,
                   chapters, path, outcome>>

InferFlat ==
    /\ pc = "acquired"
    /\ entry \in {"youtube", "enhanced", "main"}
    /\ \E r \in Responses :
          /\ response' = r
          /\ result' = AdapterResult(r)
    /\ pc' = "inferred"
    /\ requests' = requests + 1
    /\ UNCHANGED <<url, via_web, audio_file, unitvars, webvars>>
    /\ UNCHANGED <<entry, requested, transcript, duration, aligned, aligned_chapters,
                   chapters, path, outcome>>

\* analyze_structured_transcript: any exception leads to
\* create_fallback_structured_chapters, called inside the except clause; what
\* that call raises reaches main()'s own except clause
InferStructured ==
    /\ pc = "acquired"
    /\ entry = "structured"
    /\ \E r \in Responses :
          /\ response' = r
          /\ IF r.kind = "ok"
             THEN /\ result' = ListOf(r.items)
                  /\ pc' = "inferred"
                  /\ UNCHANGED <<path, outcome>>
             ELSE /\ path' = "fallback"
                  /\ IF StructuredFallbackRaises(transcript, requested)
                     THEN result' = None /\ pc' = "raised" /\ outcome' = outcome
                     ELSE /\ result' = ListOf(StructuredFallback(transcript, requested))
                          /\ pc' = "inferred"
                          /\ outcome' = outcome
    /\ requests' = requests + 1
    /\ UNCHANGED <<url, via_web, audio_file, unitvars, webvars>>
    /\ UNCHANGED <<entry, requested, transcript, duration, aligned, aligned_chapters,
                   chapters>>

\* generate_youtube_chapters.main: if chapters: snap_timestamps_to_transcript(...)
Snap ==
    /\ pc = "inferred"
    /\ entry = "youtube"
    /\ Truthy(result)
    /\ aligned' = AlignAll(result.items, transcript)
    /\ aligned_chapters' = SnapResult(aligned')
    /\ path' = "inference"
    /\ pc' = "snapped"
    /\ UNCHANGED <<url, via_web, requests, audio_file, unitvars, webvars>>
    /\ UNCHANGED <<entry, requested, transcript, duration, response, result, chapters,
                   outcome>>

\* the CHAPTERS section: format_time(t) and title of aligned_chapters[:args.chapters]
SnappedLines(ac, n) ==
    LET kept == Truncate(ac, n)
    IN  [i \in 1..Len(kept) |-> Line(format_time(kept[i][1]), kept[i][2])]

WriteSnapped ==
    /\ pc = "snapped"
    /\ chapters' = SnappedLines(aligned_chapters, requested)
    /\ outcome' = "written"
    /\ pc' = "done"
    /\ audio_file' = AudioAtExit(entry, audio_file)
    /\ UNCHANGED <<url, via_web, requests, unitvars, webvars>>
    /\ UNCHANGED <<entry, requested, transcript, duration, response, result, aligned,
                   aligned_chapters, path>>

\* chapter['timestamp'], chapter['title'] raise KeyError on a missing key
RawLinesRaise(items) == \E i \in 1..Len(items) : ~items[i].has_ts \/ ~items[i].has_title

RawLines(items) == [i \in 1..Len(items) |-> Line(items[i].ts, items[i].title)]

\* main_enhanced / main / generate_structured_chapters: the returned chapters are
\* written as they are
WriteChapters ==
    /\ pc = "inferred"
    /\ entry \in {"enhanced", "main", "structured"}
    /\ Truthy(result)
    /\ IF RawLinesRaise(result.items)
       THEN pc' = "raised" /\ outcome' = outcome /\ chapters' = chapters
       ELSE pc' = "done" /\ outcome' = "written" /\ chapters' = RawLines(result.items)
    /\ path' = IF path = "fallback" THEN "fallback" ELSE "inference"
    /\ UNCHANGED <<url, via_web, requests, audio_file, unitvars, webvars>>
    /\ UNCHANGED <<entry, requested, transcript, duration, response, result, aligned,
                   aligned_chapters>>

\* main_enhanced / main: else-branch of "if ai_chapters:"
FlatFallbackStep ==
    /\ pc = "inferred"
    /\ entry \in {"enhanced", "main"}
    /\ ~Truthy(result)
    /\ chapters' = FlatFallback(entry, transcript, duration)
    /\ path' = "fallback"
    /\ outcome' = "written"
    /\ pc' = "done"
    /\ UNCHANGED <<url, via_web, requests, audio_file, unitvars, webvars>>
    /\ UNCHANGED <<entry, requested, transcript, duration, response, result, aligned,
                   aligned_chapters>>

\* generate_youtube_chapters / generate_structured_chapters: else-branch of
\* "if chapters:", which prints "Failed to generate ... chapters."
NoChapters ==
    /\ pc = "inferred"
    /\ entry \in {"youtube", "structured"}
    /\ ~Truthy(result)
    /\ outcome' = "failed"
    /\ pc' = "done"
    /\ audio_file' = AudioAtExit(entry, audio_file)
    /\ UNCHANGED <<url, via_web, requests, unitvars, webvars>>
    /\ UNCHANGED <<entry, requested, transcript, duration, response, result, aligned,
                   aligned_chapters, chapters, path>>

\* main(): "except Exception as e: print(f'An error occurred: {e}')"
HandleException ==
    /\ pc = "raised"
    /\ outcome' = "error"
    /\ pc' = "done"
    /\ audio_file' = AudioAtExit(entry, audio_file)
    /\ UNCHANGED <<url, via_web, requests, unitvars, webvars>>
    /\ UNCHANGED <<entry, requested, transcript, duration, response, result, aligned,
                   aligned_chapters, chapters, path>>

Next ==
    \/ Validate
    \/ Acquire
    \/ InferFlat
    \/ InferStructured
    \/ Snap
    \/ WriteSnapped
    \/ WriteChapters
    \/ FlatFallbackStep
    \/ NoChapters
    \/ HandleException

Spec == Init /\ [][Next]_vars

-----------------------------------------------------------------------------
(* Properties *)

\* the inference call failed as a whole: no chapter list, or an empty one
InferenceFailed ==
    \/ response.kind \in FailureKinds
    \/ response.kind = "ok" /\ response.items = <<>>

\* the chapter count the user asked for
RequestedCount == IF entry = "structured" THEN requested + 2 ELSE requested

StartSet == {transcript[i].start : i \in 1..Len(transcript)}

SnapperRan == entry = "youtube" /\ pc \in {"snapped", "done"} /\ path = "inference"

\* C1: whenever chapter inference fails on a non-empty transcript, the run still
\* ends with a ChapterSet produced by the Fallback Partitioner; a run never ends
\* with no chapters because inference failed. Stated for requests of at least
\* one chapter (one question slot).
C1_FallbackOnInferenceFailure ==
    (pc = "done" /\ transcript # <<>> /\ InferenceFailed /\ requested >= 1)
        => (outcome = "written" /\ path = "fallback" /\ Len(chapters) >= 1)

\* C2: the list returned by snap_timestamps_to_transcript has strictly increasing
\* times, so no two chapters share a time.
C2_SnapStrictlyIncreasing ==
    SnapperRan =>
        \A i \in 1..Len(aligned_chapters), j \in 1..Len(aligned_chapters) :
            i < j => aligned_chapters[i][1] < aligned_chapters[j][1]

\* several candidates were snapped to one segment start, and more than one
\* chapter is returned
C2_Witness ==
    /\ SnapperRan
    /\ Len(aligned_chapters) >= 2
    /\ Len(aligned) > Len(aligned_chapters)

\* C3: every time in the Snapper's output is exactly the start of some segment
\* of the transcript.
C3_SnapTimesAreSegmentStarts ==
    SnapperRan =>
        \A i \in 1..Len(aligned_chapters) : aligned_chapters[i][1] \in StartSet

\* a candidate whose parsed time is no segment start was snapped
C3_Witness ==
    /\ SnapperRan
    /\ Len(aligned_chapters) >= 1
    /\ \E i \in 1..Len(result.items) :
          ParseTimestamp(TimestampOf(result.items[i])) * MsPerSecond \notin StartSet

\* parsed time of candidate i, in milliseconds
ParsedMs(i) == ParseTimestamp(TimestampOf(result.items[i])) * MsPerSecond

\* C4 (as stated): the time a candidate is snapped to is at most the candidate's
\* parsed time, also for a candidate that precedes the first segment.
C4_SnapNotAfterCandidate ==
    SnapperRan => \A i \in 1..Len(aligned) : aligned[i][1] <= ParsedMs(i)

\* C4 (amended): a candidate at or after the first segment's start is snapped to
\* a time at most its parsed time; a candidate before the first segment's start
\* is snapped to the first segment's start, which is later than its parsed time.
C4_SnapNotAfterCandidateFromFirstStart ==
    SnapperRan =>
        \A i \in 1..Len(aligned) :
            IF ParsedMs(i) >= transcript[1].start
            THEN aligned[i][1] <= ParsedMs(i)
            ELSE aligned[i][1] = transcript[1].start /\ aligned[i][1] > ParsedMs(i)

\* both cases in one run: a candidate before the first segment, and a candidate
\* strictly inside the transcript that is snapped down to an earlier start
C4_Witness ==
    /\ SnapperRan
    /\ \E i \in 1..Len(aligned) : ParsedMs(i) < transcript[1].start
    /\ \E i \in 1..Len(aligned) :
          ParsedMs(i) > transcript[1].start /\ aligned[i][1] < ParsedMs(i)

\* C5: in the inference path with requested count N >= 1 the chapters emitted
\* are the N earliest entries of the deduplicated, sorted snapped list, or all of
\* them when fewer than N exist; so at most N chapters are emitted.
C5_InferenceKeepsEarliestN ==
    (entry = "youtube" /\ outcome = "written" /\ requested >= 1) =>
        /\ Len(chapters) <= requested
        /\ Len(chapters) = Min(requested, Len(aligned_chapters))
        /\ \A i \in 1..Len(chapters) :
              /\ chapters[i].timestamp = format_time(aligned_chapters[i][1])
              /\ chapters[i].title = aligned_chapters[i][2]
              /\ \A j \in (Len(chapters) + 1)..Len(aligned_chapters) :
                    aligned_chapters[i][1] < aligned_chapters[j][1]

\* more distinct snapped times than the requested count: the list is cut
C5_Witness ==
    /\ entry = "youtube"
    /\ outcome = "written"
    /\ requested >= 1
    /\ Len(aligned_chapters) > requested
    /\ Len(chapters) = requested

\* C6: for every run that produces chapters, through the inference path or the
\* fallback path and in every entry point, the number of chapters in the final
\* ChapterSet is at most the requested chapter count. Stated for requests of at
\* least one chapter (one question slot).
C6_CountAtMostRequested ==
    (outcome = "written" /\ requested >= 1) => Len(chapters) <= RequestedCount

\* index of the first candidate, in candidate-list order, snapped to time t
FirstClaimant(t) ==
    CHOOSE i \in 1..Len(aligned) :
        aligned[i][1] = t /\ \A j \in 1..(i - 1) : aligned[j][1] # t

ScenarioTranscript == Segs(<<0, 60000, 125000, 300000>>)

ScenarioCandidates ==
    << Cand(<<Field(0), Field(1), Field(10)>>, T_TopicA),
       Cand(<<Field(0), Field(1), Field(10)>>, T_TopicADup),
       Cand(<<Field(0), Field(5), Field(10)>>, T_Outro) >>

InScenario ==
    /\ SnapperRan
    /\ transcript = ScenarioTranscript
    /\ result.items = ScenarioCandidates
    /\ requested = 3

\* C7: when several candidates snap to the same segment start, the Snapper
\* outputs exactly one chapter at that time, titled with the normalized title of
\* the first such candidate in candidate-list order; segment starts
\* [0, 60, 125, 300] with candidates (00:01:10, 'Topic A'),
\* (00:01:10, 'Topic A Dup'), (00:05:10, 'Outro') and requested count 3 yield
\* exactly [(60, 'Topic A'), (300, 'Outro')].
C7_FirstClaimantWins ==
    /\ SnapperRan =>
          \A i \in 1..Len(aligned) :
              LET t == aligned[i][1]
                  at == {k \in 1..Len(aligned_chapters) : aligned_chapters[k][1] = t}
              IN  /\ Cardinality(at) = 1
                  /\ \A k \in at :
                        aligned_chapters[k][2]
                            = NormalizeTitle(result.items[FirstClaimant(t)])
    /\ InScenario =>
          /\ aligned_chapters = << <<60000, T_TopicA>>, <<300000, T_Outro>> >>
          /\ pc = "done" =>
                chapters = << Line(<<Field(0), Field(1), Field(0)>>, T_TopicA),
                              Line(<<Field(0), Field(5), Field(0)>>, T_Outro) >>

\* the scenario has run to its end
C7_Witness == InScenario /\ pc = "done" /\ outcome = "written"

FlatFallbackRan ==
    entry \in {"enhanced", "main"} /\ path = "fallback" /\ outcome = "written"

\* C8: given a non-empty transcript and duration > 0 the flat Fallback
\* Partitioner emits exactly target chapters, one 'Introduction' at 00:00:00
\* plus target-1 slice-boundary chapters, where target is min(100, derived
\* count) and so never exceeds 100.
C8_FlatFallbackCount ==
    (FlatFallbackRan /\ duration > 0) =>
        LET derived == IF entry = "main" THEN 100 ELSE Max(10, duration \div 180)
            target == Min(100, derived)
        IN  /\ Len(chapters) = target
            /\ Len(chapters) <= 100
            /\ chapters[1] = Line(TS_Zero, T_Introduction)
            /\ \A i \in 2..Len(chapters) :
                  \E k \in 1..Len(transcript) :
                      /\ chapters[i].timestamp = format_time(transcript[k].start)
                      /\ chapters[i].title
                            = SliceTo(Strip(transcript[k].text), MaxTextLen)

\* derived count above the platform maximum: the cap decides the count
C8_Witness ==
    /\ FlatFallbackRan
    /\ entry = "enhanced"
    /\ duration \div 180 > 100
    /\ Len(chapters) = 100

StructuredFallbackRan ==
    entry = "structured" /\ path = "fallback" /\ pc = "done"

\* C9: given a non-empty transcript whose duration is > 0 and questionCount
\* Q >= 1, create_fallback_structured_chapters returns exactly Q + 2 chapters in
\* the order 'Introduction', 'Q1: Topic 1' .. 'QQ: Topic Q', 'Closing Remarks'.
C9_StructuredFallbackLayout ==
    (StructuredFallbackRan /\ requested >= 1 /\ transcript[Len(transcript)].start > 0) =>
        /\ outcome = "written"
        /\ Len(chapters) = requested + 2
        /\ chapters[1].title = T_Introduction
        /\ \A i \in 1..requested :
              chapters[i + 1].title
                  = <<"Q">> \o IntChars(i) \o <<":"," ","T","o","p","i","c"," ">> \o IntChars(i)
        /\ chapters[requested + 2].title = T_Closing

\* a structured fallback with several question slots over a positive duration
C9_Witness ==
    /\ StructuredFallbackRan
    /\ requested >= 2
    /\ transcript[Len(transcript)].start > 0
    /\ Len(chapters) = requested + 2

\* C10: the Fallback Partitioner never fails: for every non-empty transcript,
\* every duration >= 0 and every layout handed to it, questionCount 0 included,
\* it returns a ChapterSet instead of raising an error.
C10_FallbackNeverRaises ==
    path = "fallback" => (pc # "raised" /\ outcome # "error")

\* the fallback ran over a positive duration: the video's for the flat
\* layout, the last segment's start for the structured one
FallbackOverPositiveDuration ==
    \/ FlatFallbackRan /\ duration > 0
    \/ StructuredFallbackRan /\ outcome = "written"
         /\ transcript[Len(transcript)].start > 0

\* C11: the ChapterSet produced by the Fallback Partitioner (flat or structured)
\* has strictly increasing chapter times, no two chapters at the same timestamp,
\* for every non-empty transcript with duration > 0, short videos and transcripts
\* with fewer segments than chapters included.
C11_FallbackStrictlyIncreasing ==
    FallbackOverPositiveDuration =>
        \A i \in 1..Len(chapters), j \in 1..Len(chapters) :
            i < j => ParseTimestamp(chapters[i].timestamp)
                        < ParseTimestamp(chapters[j].timestamp)

\* the run has obtained its transcript: it is past the acquisition, and the
\* acquisition did not end in an exception (which leaves no transcript at all)
TranscriptObtained ==
    /\ pc \notin {"start", "validated", "raised"}
    /\ outcome \notin {"rejected", "error"}

\* C12: when the transcript obtained for a run is empty, the run aborts without
\* producing a ChapterSet or writing a chapter file, and no inference request is
\* sent in that run.
C12_EmptyTranscriptAborts ==
    (TranscriptObtained /\ transcript = <<>>) =>
        /\ pc = "done"
        /\ outcome = "no_transcript"
        /\ chapters = <<>>
        /\ aligned_chapters = <<>>
        /\ requests = 0
        /\ response = NoResponse

\* a run that obtained an empty transcript and has ended
C12_Witness ==
    /\ pc = "done"
    /\ outcome = "no_transcript"
    /\ transcript = <<>>

\* the request is one the Layout Controller must reject
InvalidRequest ==
    \/ RequestedCount < WebMinChapters
    \/ RequestedCount > WebMaxChapters
    \/ url.empty

\* C13: a generation request whose chapter count is outside 1..200 or whose
\* source URL is empty is rejected with an error before any download,
\* transcription, inference or chapter-generation step begins.
C13_InvalidRequestRejected ==
    InvalidRequest =>
        \/ pc = "start"
        \/ pc = "done" /\ outcome = "rejected" /\ requests = 0 /\ transcript = <<>>

\* the duration the structured fallback works on: the last segment's start (ms)
StructDuration == transcript[Len(transcript)].start

\* a structured fallback that wrote its chapters over a positive duration
StructuredFallbackWrote ==
    /\ StructuredFallbackRan
    /\ outcome = "written"
    /\ requested >= 1
    /\ StructDuration > 0

\* whole seconds t is the floor of num / (20 * MsPerSecond * den) seconds
IsFloorSeconds(t, num, den) ==
    /\ t * 20 * MsPerSecond * den <= num
    /\ num < (t + 1) * 20 * MsPerSecond * den

\* the closing start the chapters themselves show, in seconds
ClosingShown == ParseTimestamp(chapters[Len(chapters)].timestamp)

\* C18: for the structured fallback with Q question slots over duration d, the
\* introduction is at time 0, question i (i = 0..Q-1) is at
\* intro_end + i*(closing_start - intro_end)/Q with intro_end = min(5% of d, 120 s),
\* and the closing chapter is at closing_start; for Q = 3 and d = 600 s this gives
\* 5 chapters with the intro at 0, three evenly spaced questions and the closing
\* at a time >= 540 s.
C18_StructuredFallbackTimes ==
    StructuredFallbackWrote =>
        LET d  == StructDuration
            Q  == requested
            ie == Min(d, 20 * 120 * MsPerSecond)
            cs == ClosingStart20(d)
        IN  /\ ParseTimestamp(chapters[1].timestamp) = 0
            /\ \A i \in 0..(Q - 1) :
                  IsFloorSeconds(ParseTimestamp(chapters[i + 2].timestamp),
                                 Q * ie + i * (cs - ie), Q)
            /\ IsFloorSeconds(ClosingShown, cs, 1)
            /\ (Q = 3 /\ d = 600 * MsPerSecond) =>
                  /\ Len(chapters) = 5
                  /\ ClosingShown >= 540
                  /\ LET q0 == ParseTimestamp(chapters[2].timestamp)
                         q1 == ParseTimestamp(chapters[3].timestamp)
                         q2 == ParseTimestamp(chapters[4].timestamp)
                     IN  /\ q1 - q0 = q2 - q1
                         /\ q2 - q1 = ClosingShown - q2
                         /\ q0 > 0 /\ q1 > q0

\* the scenario of the claim: three question slots over 600 seconds
C18_Witness ==
    /\ StructuredFallbackWrote
    /\ requested = 3
    /\ StructDuration = 600 * MsPerSecond
    /\ [i \in 1..Len(chapters) |-> ParseTimestamp(chapters[i].timestamp)]
          = <<0, 30, 210, 390, 570>>

\* C20 as stated: in the structured fallback the closing chapter spans the final
\* max(1 minute, 5% of duration) of the video: for every duration d > 0 it starts
\* at d - max(60, 0.05*d).
C20_ClosingSpansMax ==
    StructuredFallbackWrote =>
        IsFloorSeconds(ClosingShown,
                       20 * StructDuration - Max(20 * 60 * MsPerSecond, StructDuration), 1)

\* C20 as the code has it: in the structured fallback the closing chapter spans
\* the final min(1 minute, 5% of duration) of the video: for every duration d > 0
\* it starts at d - min(60, 0.05*d).
C20_ClosingSpansMin ==
    StructuredFallbackWrote =>
        IsFloorSeconds(ClosingShown,
                       20 * StructDuration - Min(20 * 60 * MsPerSecond, StructDuration), 1)

\* a structured fallback whose closing chapter starts 5% before the end
C20_Witness ==
    /\ StructuredFallbackWrote
    /\ StructDuration = 600 * MsPerSecond
    /\ ClosingShown = 570

-----------------------------------------------------------------------------
(* Text of timestamps *)

\* f"{n:02}"
Pad2(n) == IF n < 10 THEN <<"0", DigitChar(n)>> ELSE IntChars(n)

\* f"{h:02}:{m:02}:{s:02}" of the fields format_time computes
TimestampText(ts) ==
    Pad2(ts[1].val) \o <<":">> \o Pad2(ts[2].val) \o <<":">> \o Pad2(ts[3].val)

\* the positions of character c in s
Positions(s, c) == {i \in 1..Len(s) : s[i] = c}

\* the k-th smallest element of a finite set of integers
Nth(S, k) == CHOOSE x \in S : Cardinality({y \in S : y < x}) = k - 1

\* s.split(c) for a one-character separator c
SplitChar(s, c) ==
    LET P     == Positions(s, c)
        n     == Cardinality(P)
        cut(k) == IF k = 0 THEN 0 ELSE IF k = n + 1 THEN Len(s) + 1 ELSE Nth(P, k)
    IN  [k \in 1..(n + 1) |-> SubSeq(s, cut(k - 1) + 1, cut(k) - 1)]

Digits == {"0","1","2","3","4","5","6","7","8","9"}

DigitVal(c) == CHOOSE d \in 0..9 : DigitChar(d) = c

RECURSIVE DecimalValue(_)
DecimalValue(s) ==
    IF s = <<>> THEN 0
    ELSE 10 * DecimalValue(SubSeq(s, 1, Len(s) - 1)) + DigitVal(s[Len(s)])

\* int(s) of a text of decimal digits; any other text raises ValueError
ParseInt(s) ==
    IF s # <<>> /\ \A i \in 1..Len(s) : s[i] \in Digits
    THEN Field(DecimalValue(s))
    ELSE Junk

\* map(int, ts.split(':'))
TimestampFields(text) ==
    LET parts == SplitChar(text, ":")
    IN  [i \in 1..Len(parts) |-> ParseInt(parts[i])]

-----------------------------------------------------------------------------
(* The Sampler *)

SampleSizeYoutube == 400
SampleSizeEnhanced == 200
SampleSizeMain == 500
SampleSizeStructured == 300
SampleSizeTitles == 150

SampleSizes ==
    {SampleSizeYoutube, SampleSizeEnhanced, SampleSizeMain, SampleSizeStructured,
     SampleSizeTitles}

\* step = max(1, len(transcript) // min(K, len(transcript)))
SampleStep(n, K) == Max(1, n \div Min(K, n))

\* the first K segments instead of every step-th one
Sample_Head(tr, K) == SubSeq(tr, 1, Min(K, Len(tr)))

\* transcript[::step]
Sample(tr, K) ==
    LET n    == Len(tr)
        step == SampleStep(n, K)
    IN  [k \in 1..((n + step - 1) \div step) |-> tr[(k - 1) * step + 1]]

-----------------------------------------------------------------------------
(* The Transcript Parser *)

RECURSIVE StripFrom(_, _)
\* re.sub(r'<[^>]+>', '', text), scanning from position i
StripFrom(s, i) ==
    IF i > Len(s) THEN <<>>
    ELSE LET closers == {j \in (i + 1)..Len(s) : s[j] = ">"}
             j       == IF closers = {} THEN 0 ELSE Nth(closers, 1)
         IN  IF s[i] = "<" /\ j >= i + 2
             THEN StripFrom(s, j + 1)
             ELSE <<s[i]>> \o StripFrom(s, i + 1)

StripTags(s) == StripFrom(s, 1)

\* a cue block: whether its first line holds '-->', the text before ' --> ',
\* and the lines after the first
Cue(arrow, start, text_lines) == [arrow |-> arrow, start |-> start, text_lines |-> text_lines]

\* s, ms = s_ms.split('.') followed by the int() conversions and the sum,
\* in milliseconds; raises ValueError when the unpacking or an int() fails
CueSeconds(fields, s_ms) ==
    LET sms  == SplitChar(s_ms, ".")
        ints == [i \in 1..Len(fields) |-> ParseInt(fields[i])]
    IN  IF Len(sms) # 2 THEN [raised |-> TRUE, ms |-> 0]
        ELSE LET sec == ParseInt(sms[1])
                 mil == ParseInt(sms[2])
             IN  IF ~sec.isint \/ ~mil.isint \/ \E i \in 1..Len(ints) : ~ints[i].isint
                 THEN [raised |-> TRUE, ms |-> 0]
                 ELSE [raised |-> FALSE,
                       ms |-> (IF Len(ints) = 2
                               THEN ints[1].val * 3600 + ints[2].val * 60
                               ELSE ints[1].val * 60) * MsPerSecond
                              + sec.val * MsPerSecond + mil.val]

\* the body of parse_vtt's loop for one cue
ParseCue(cue) ==
    IF ~(Len(cue.text_lines) >= 1 /\ cue.arrow) THEN [kind |-> "skip"]
    ELSE LET parts == SplitChar(cue.start, ":")
         IN  IF Len(parts) \notin {2, 3} THEN [kind |-> "skip"]
             ELSE LET t == CueSeconds(SubSeq(parts, 1, Len(parts) - 1), parts[Len(parts)])
                  IN  IF t.raised THEN [kind |-> "raise"]
                      ELSE [kind |-> "ok",
                            seg |-> [start |-> t.ms,
                                     text |-> StripTags(JoinWords(cue.text_lines))]]

RECURSIVE ParseLoop(_, _, _)
ParseLoop(cues, i, acc) ==
    IF i > Len(cues) THEN [raised |-> FALSE, transcript |-> acc]
    ELSE LET r == ParseCue(cues[i])
         IN  IF r.kind = "raise" THEN [raised |-> TRUE, transcript |-> <<>>]
             ELSE IF r.kind = "skip" THEN ParseLoop(cues, i + 1, acc)
             ELSE ParseLoop(cues, i + 1, Append(acc, r.seg))

\* parse_vtt over the cue blocks of the file
parse_vtt(cues) == ParseLoop(cues, 1, <<>>)

-----------------------------------------------------------------------------
(* The chapter document: written by the generator, parsed by the web endpoint *)

H_Titles == <<"S","U","G","G","E","S","T","E","D"," ","T","I","T","L","E","S",":","\n">>
H_Chapters == <<"\n","\n","C","H","A","P","T","E","R","S",":","\n">>
H_Tags == <<"\n","\n","Y","O","U","T","U","B","E"," ","T","A","G","S",":","\n">>
H_ChaptersOnly == <<"C","H","A","P","T","E","R","S",":","\n">>

RECURSIVE ConcatAll(_)
\* the texts of a sequence written one after another
ConcatAll(ts) == IF ts = <<>> THEN <<>> ELSE ts[1] \o ConcatAll(Tail(ts))

\* the text main() writes to chapters/<title>.txt: lines[i] is (t, title) of
\* aligned_chapters[:args.chapters], t in milliseconds
WriteDocument(titles, lines, tags) ==
    H_Titles
        \o ConcatAll([i \in 1..Len(titles) |->
                        IntChars(i) \o <<".", " ">> \o titles[i] \o <<"\n">>])
        \o H_Chapters
        \o ConcatAll([i \in 1..Len(lines) |->
                        TimestampText(format_time(lines[i][1])) \o <<" ">>
                            \o lines[i][2] \o <<"\n">>])
        \o H_Tags \o tags \o <<"\n">>

\* s.startswith(p)
StartsWith(s, p) == Len(s) >= Len(p) /\ SubSeq(s, 1, Len(p)) = p

\* the position of the first occurrence of p in s, 0 if there is none
Find(s, p) ==
    LET hits == {i \in 1..(Len(s) - Len(p) + 1) : SubSeq(s, i, i + Len(p) - 1) = p}
    IN  IF hits = {} THEN 0 ELSE Nth(hits, 1)

\* s.split(p, 1) when p occurs in s
SplitOnce(s, p) ==
    LET i == Find(s, p)
    IN  <<SubSeq(s, 1, i - 1), SubSeq(s, i + Len(p), Len(s))>>

\* line.split(' ', 1)
SplitFirstSpace(line) ==
    IF Find(line, <<" ">>) = 0 THEN <<line>> ELSE SplitOnce(line, <<" ">>)

\* the non-blank lines that split into two parts, as timestamp and title
ParseChapterLines(content) ==
    LET ls   == SplitChar(content, "\n")
        good == SelectSeq(ls, LAMBDA l : Strip(l) # <<>> /\ Len(SplitFirstSpace(l)) = 2)
    IN  [i \in 1..Len(good) |->
            [timestamp |-> SplitFirstSpace(good[i])[1], title |-> SplitFirstSpace(good[i])[2]]]

\* generate_chapters: the sections of the file read back. The title section
\* holds 'SUGGESTED TITLES:\n' once, at its head, so the replace() drops that head
ParseDocument(text) ==
    LET full        == Strip(text)
        hasTitles   == StartsWith(full, H_Titles) /\ Find(full, H_Chapters) # 0
        titleLines  == IF hasTitles
                       THEN SplitChar(Strip(SubSeq(SplitOnce(full, H_Chapters)[1],
                                                   Len(H_Titles) + 1,
                                                   Len(SplitOnce(full, H_Chapters)[1]))), "\n")
                       ELSE <<>>
        afterTitles == IF hasTitles THEN SplitOnce(full, H_Chapters)[2] ELSE full
        hasTags     == Find(afterTitles, H_Tags) # 0
        body        == IF hasTags THEN SplitOnce(afterTitles, H_Tags)[1] ELSE afterTitles
        content     == IF StartsWith(body, H_ChaptersOnly)
                       THEN SubSeq(body, Len(H_ChaptersOnly) + 1, Len(body))
                       ELSE body
    IN  [chapters  |-> ParseChapterLines(content),
         has_titles |-> hasTitles,
         titles    |-> [i \in 1..Len(SelectSeq(titleLines, LAMBDA l : Strip(l) # <<>>)) |->
                          Strip(SelectSeq(titleLines, LAMBDA l : Strip(l) # <<>>)[i])],
         has_tags  |-> hasTags,
         tags      |-> IF hasTags THEN Strip(SplitOnce(afterTitles, H_Tags)[2]) ELSE <<>>]

-----------------------------------------------------------------------------
(* Pure functions applied to enumerated inputs *)

StageDuration == 600
MaxSmallSeconds == 120
MaxSnapSeconds == 320
MaxStrideFactor == 2
SegmentSpacing == 2500

\* whole seconds around the minute, hour, day and 100-hour marks
SecondsInputs ==
    (0..MaxSmallSeconds)
        \cup {3599, 3600, 3661, 86399, 86400, 90061, 359999, 360000, 363599, 1000000}

\* a transcript of n segments with ascending starts
LongTranscript(n) ==
    [i \in 1..n |-> [start |-> (i - 1) * SegmentSpacing,
                     text |-> SegTexts[((i - 1) % Len(SegTexts)) + 1]]]

\* non-empty transcript lengths around the multiples of the sample size
SampleLens(K) ==
    {1, 2, 3} \cup {f * K + o : f \in 1..MaxStrideFactor, o \in {0 - 1, 0, 1}}

MaxCues == 2

X_Hello == <<"h","e","l","l","o">>
X_Tagged == <<"<","c",">","h","i","<","/","c",">">>
X_Time == <<"0","0",":","0","1",":","0","5",".","5","0","0">>
X_ShortTime == <<"0","1",":","0","5",".","2","5","0">>
X_NoMs == <<"0","0",":","0","1",":","0","5">>
X_NonNumeric == <<"0","0",":","x","x",":","0","5",".","5","0","0">>
X_OneField == <<"6","5",".","5","0","0">>

Cue_Full == Cue(TRUE, X_Time, <<X_Hello>>)
Cue_Short == Cue(TRUE, X_ShortTime, <<X_Tagged, X_Hello>>)
Cue_NoMs == Cue(TRUE, X_NoMs, <<X_Hello>>)
Cue_NonNumeric == Cue(TRUE, X_NonNumeric, <<X_Hello>>)
Cue_OneField == Cue(TRUE, X_OneField, <<X_Hello>>)
Cue_NoText == Cue(TRUE, X_Time, <<>>)
Cue_Header == Cue(FALSE, <<"W","E","B","V","T","T">>, <<X_Hello>>)

ValidCues == {Cue_Full, Cue_Short}
UnparsableCues == {Cue_NoMs, Cue_NonNumeric}
SkippedCues == {Cue_OneField, Cue_NoText, Cue_Header}

CuePool == ValidCues \cup UnparsableCues \cup SkippedCues

CueLists == UNION {[1..n -> CuePool] : n \in 0..MaxCues}

MaxDocChapters == 2

Y_Guide == <<"C","o","m","p","l","e","t","e"," ","E","d","u","c","a","t","i","o","n","a","l"," ","G","u","i","d","e">>
Y_Basics == <<"M","a","s","t","e","r"," ","t","h","e"," ","B","a","s","i","c","s">>
Y_Tags == <<"#","E","d","u","c","a","t","i","o","n","a","l","C","o","n","t","e","n","t"," ","#","T","u","t","o","r","i","a","l">>
Y_TagLines == <<"#","T","u","t","o","r","i","a","l","\n","#","L","e","a","r","n","i","n","g">>

\* generate_youtube_titles gives one to five stripped one-line titles
TitleLists == {<<Y_Guide>>, <<Y_Guide, Y_Basics>>}

\* generate_youtube_tags gives the stripped text of the response
TagTexts == {Y_Tags, Y_TagLines, <<>>}

\* snapped chapters (t in ms, normalised title), ascending distinct times
DocChapterPool ==
    << <<0, T_Introduction>>, <<61500, T_TopicA>>, <<3600000, <<>> >>,
       <<360000000, T_Chapter>> >>

\* the Snapper's output cut to the requested count
DocChapters ==
    { [k \in 1..Cardinality(S) |-> DocChapterPool[Nth(S, k)]] :
        S \in {X \in SUBSET (1..Len(DocChapterPool)) : Cardinality(X) <= MaxDocChapters} }

UnitInit ==
    /\ entry = "youtube"
    /\ requested = 1
    /\ url = U_Watch
    /\ via_web = FALSE
    /\ requests = 0
    /\ audio_file = "none"
    /\ pc = "unit"
    /\ transcript = <<>>
    /\ duration = 0
    /\ response = NoResponse
    /\ result = None
    /\ aligned = <<>>
    /\ aligned_chapters = <<>>
    /\ chapters = <<>>
    /\ path = "none"
    /\ outcome = "running"
    /\ u_op = "none"
    /\ u_in = <<>>
    /\ u_out = <<>>
    /\ chapters_dir = {}
    /\ web = <<>>

\* the sampling at the head of the inference adapters
ApplySample ==
    /\ u_op = "none"
    /\ \E K \in SampleSizes :
         \E n \in SampleLens(K) :
            /\ u_in' = [tr |-> LongTranscript(n), K |-> K]
            /\ u_out' = Sample(LongTranscript(n), K)
    /\ u_op' = "sample"
    /\ UNCHANGED <<runvars, webvars>>

\* format_time, then the Snapper's parse of the text
ApplyRoundTrip ==
    /\ u_op = "none"
    /\ \E n \in SecondsInputs :
          LET text == TimestampText(format_time(n * MsPerSecond))
          IN  /\ u_in' = n
              /\ u_out' = [text |-> text, parsed |-> ParseTimestamp(TimestampFields(text))]
    /\ u_op' = "round_trip"
    /\ UNCHANGED <<runvars, webvars>>

\* parse_vtt on the cue blocks of a subtitle file
ApplyParseVtt ==
    /\ u_op = "none"
    /\ \E cues \in CueLists :
          /\ u_in' = cues
          /\ u_out' = parse_vtt(cues)
    /\ u_op' = "parse_vtt"
    /\ UNCHANGED <<runvars, webvars>>

\* the generator writes the document, the web endpoint reads it back
ApplyDocument ==
    /\ u_op = "none"
    /\ \E titles \in TitleLists, lines \in DocChapters, tags \in TagTexts :
          /\ u_in' = [titles |-> titles, lines |-> lines, tags |-> tags]
          /\ u_out' = ParseDocument(WriteDocument(titles, lines, tags))
    /\ u_op' = "document"
    /\ UNCHANGED <<runvars, webvars>>

\* the Snapper's search for one candidate time t (whole seconds)
ApplySnap ==
    /\ u_op = "none"
    /\ \E tr \in Transcripts \ {<<>>}, t \in 0..MaxSnapSeconds :
          /\ u_in' = [tr |-> tr, t |-> t]
          /\ u_out' = Starts(tr)[SnapIndex(Starts(tr), t) + 1]
    /\ u_op' = "snap"
    /\ UNCHANGED <<runvars, webvars>>

Stages == {"adapter", "snapper", "flat", "structured"}

\* step = max(1, len(transcript) // sample_size) divides by zero, ahead of the
\* adapter's try block
AdapterRaises(tr) == Min(SampleSizeYoutube, Len(tr)) = 0

\* snap = starts[idx] with idx clamped to 0 indexes an empty list
SnapRaises(cands, tr) == cands # <<>> /\ Len(Starts(tr)) = 0

\* min(transcript, key=...) of an empty transcript, in the loop over the slices
FlatFallbackRaises(e, tr, d) == tr = <<>> /\ FlatTarget(e, d) > 1

\* what a stage called on its own gives: whether it raises, and its chapters
\* (the adapter with a call that fails, whose value is None)
StageOutput(stage, tr, cands) ==
    IF stage = "adapter"
    THEN [raised |-> AdapterRaises(tr), chapters |-> <<>>]
    ELSE IF stage = "snapper"
    THEN IF SnapRaises(cands, tr) THEN [raised |-> TRUE, chapters |-> <<>>]
         ELSE [raised |-> FALSE, chapters |-> SnapResult(AlignAll(cands, tr))]
    ELSE IF stage = "flat"
    THEN IF FlatFallbackRaises("enhanced", tr, StageDuration)
         THEN [raised |-> TRUE, chapters |-> <<>>]
         ELSE [raised |-> FALSE, chapters |-> FlatFallback("enhanced", tr, StageDuration)]
    ELSE [raised |-> FALSE, chapters |-> StructuredFallback(tr, 1)]

\* one stage of the pipeline called with a transcript and a list of candidates
ApplyStage ==
    /\ u_op = "none"
    /\ \E stage \in Stages, tr \in Transcripts, cands \in ListsUpTo(CandPool, 1) :
          /\ u_in' = [stage |-> stage, tr |-> tr, cands |-> cands]
          /\ u_out' = StageOutput(stage, tr, cands)
    /\ u_op' = "stage"
    /\ UNCHANGED <<runvars, webvars>>

\* the candidates that the (time, title) pairs of a Snapper result make when
\* each time is rendered by format_time and read back as a 'timestamp'
Rendered(al) == [i \in 1..Len(al) |-> Cand(format_time(al[i][1]), al[i][2])]

\* snap_timestamps_to_transcript applied to a list of candidates, and applied
\* again to its own rendered result
ApplyResnap ==
    /\ u_op = "none"
    /\ \E tr \in Transcripts \ {<<>>}, cands \in ListsUpTo(CandPool, 2) :
          LET first == SnapResult(AlignAll(cands, tr))
          IN  /\ u_in' = [tr |-> tr, cands |-> cands]
              /\ u_out' = [first |-> first,
                           second |-> SnapResult(AlignAll(Rendered(first), tr))]
    /\ u_op' = "resnap"
    /\ UNCHANGED <<runvars, webvars>>

UnitNext ==
    \/ ApplyResnap
    \/ ApplyStage
    \/ ApplySnap
    \/ ApplySample
    \/ ApplyRoundTrip
    \/ ApplyParseVtt
    \/ ApplyDocument

UnitSpec == UnitInit /\ [][UnitNext]_vars

C15_SampleAtMostK ==
    u_op = "sample" => Len(u_out) <= u_in.K

\* C17: for every non-negative integer number of seconds n, rendering n with
\* format_time to HH:MM:SS and re-parsing that text as h*3600 + m*60 + s (the
\* Snapper's timestamp parse) yields n again, with hours not wrapped for
\* n >= 86400 or n >= 360000.
C17_FormatParseRoundTrip ==
    u_op = "round_trip" =>
        /\ u_out.parsed = u_in
        /\ Cardinality(Positions(u_out.text, ":")) = 2

\* a round trip of 100 hours or more, rendered with a three-digit hours field
C17_Witness ==
    /\ u_op = "round_trip"
    /\ u_in >= 360000
    /\ Len(u_out.text) = 9
    /\ u_out.parsed = u_in

\* the cues of the input that are well formed, in their order
ValidOf(cues) == SelectSeq(cues, LAMBDA c : c \in ValidCues)

\* C16: the Transcript Parser never raises on a malformed cue: for any input
\* text, a cue block whose time line cannot be parsed (no milliseconds part,
\* non-numeric fields, wrong number of ':' fields) or that has no text line is
\* skipped, the remaining cues are still parsed, and an input with no valid cue
\* yields the empty Transcript.
C16_ParserSkipsMalformedCues ==
    u_op = "parse_vtt" =>
        /\ ~u_out.raised
        /\ Len(u_out.transcript) = Len(ValidOf(u_in))
        /\ \A k \in 1..Len(u_out.transcript) :
              u_out.transcript[k] = ParseCue(ValidOf(u_in)[k]).seg

\* C19: parsing a chapter document written by the generator (SUGGESTED TITLES
\* block, CHAPTERS section, YOUTUBE TAGS block) with the web endpoint's parser
\* recovers exactly the sequence of (HH:MM:SS, title) chapter pairs that was
\* written, in the same order and with the same count, each chapter line being
\* HH:MM:SS, one space, title.
C19_DocumentRoundTrip ==
    u_op = "document" =>
        u_out.chapters
            = [i \in 1..Len(u_in.lines) |->
                 [timestamp |-> TimestampText(format_time(u_in.lines[i][1])),
                  title |-> u_in.lines[i][2]]]

-----------------------------------------------------------------------------
(* Claims on the Snapper's search, titles and timestamps *)

\* the linear-scan reference: the greatest start that is <= t (milliseconds),
\* the first start when there is none
LinearScanSnap(starts, t) ==
    LET below == {starts[i] : i \in {j \in 1..Len(starts) : starts[j] <= t}}
    IN  IF below = {} THEN starts[1]
        ELSE CHOOSE v \in below : \A w \in below : w <= v

NoTitleToken(c) == ~c.has_title \/ \A k \in 1..Len(c.title) : ~IsWordChar(c.title[k])

\* C22: every chapter title output by the Snapper is non-empty: a candidate whose
\* title is missing, is the empty string, or contains no
\* alphanumeric/apostrophe/hyphen token gets the placeholder title 'Chapter'.
C22_SnapTitlesNonEmpty ==
    SnapperRan =>
        /\ \A i \in 1..Len(aligned) :
              /\ aligned[i][2] # <<>>
              /\ NoTitleToken(result.items[i]) => aligned[i][2] = T_Chapter
        /\ \A i \in 1..Len(aligned_chapters) : aligned_chapters[i][2] # <<>>

\* candidate c has no timestamp of three colon-separated integers
Malformed(c) == ~c.has_ts \/ Len(c.ts) # 3 \/ \E k \in 1..Len(c.ts) : ~c.ts[k].isint

\* C23: a candidate whose timestamp is not three colon-separated integers (for
\* example 'MM:SS', free-form text, or a missing timestamp) is treated as time 0
\* and snapped like a candidate at 0; it never raises and never prevents the
\* remaining candidates from being snapped.
C23_MalformedTimestampIsZero ==
    /\ (entry = "youtube" /\ pc = "raised") => path # "inference"
    /\ SnapperRan =>
          /\ Len(aligned) = Len(result.items)
          /\ \A i \in 1..Len(aligned) :
                Malformed(result.items[i])
                    => aligned[i][1] = LinearScanSnap(Starts(transcript), 0)

\* an 'MM:SS' candidate is followed by a well-formed one that is snapped to a
\* later segment
C23_Witness ==
    /\ SnapperRan
    /\ \E i \in 1..Len(aligned), j \in 1..Len(aligned) :
          /\ i < j
          /\ result.items[i].has_ts /\ Len(result.items[i].ts) = 2
          /\ aligned[i][1] = transcript[1].start
          /\ ~Malformed(result.items[j])
          /\ aligned[j][1] > transcript[1].start

-----------------------------------------------------------------------------
(* Claims on the run: count mismatch, empty transcript, single request *)

\* inference returned a well-formed list of another length than was asked for
CountMismatch ==
    /\ response.kind = "ok"
    /\ Len(response.items) # RequestedCount
    /\ requested >= 1

C25_EmptyTranscriptShortCircuits ==
    (u_op = "stage" /\ u_in.tr = <<>>) =>
        /\ ~u_out.raised
        /\ u_out.chapters = <<>>

\* C26: within one generation run the chapter-inference request is sent to the
\* external service at most once: after a failed or malformed response the
\* adapter reports failure without sending a second chapter-inference request.
C26_AtMostOneInferenceRequest ==
    /\ requests <= 1
    /\ response.kind \in FailureKinds =>
          /\ requests = 1
          /\ pc # "acquired"
          /\ entry # "structured" => result = None

\* a run that ended after its one inference request failed
C26_Witness ==
    /\ pc = "done"
    /\ response.kind \in FailureKinds
    /\ requests = 1

\* C27: in the inference path the HH:MM:SS timestamps of the chapter lines
\* written to the output are pairwise distinct and strictly increasing, also when
\* transcript segment starts are fractional seconds and two distinct segment
\* starts fall within the same whole second.
C27_WrittenTimestampsIncrease ==
    (SnapperRan /\ pc = "done" /\ outcome = "written") =>
        \A i \in 1..Len(chapters), j \in 1..Len(chapters) :
            i < j => ParseTimestamp(chapters[i].timestamp)
                        < ParseTimestamp(chapters[j].timestamp)

\* C28: snapping is idempotent: rendering each time of the Snapper's output as
\* HH:MM:SS and snapping the resulting candidates again against the same
\* transcript returns the same list of (time, title) pairs, for every transcript
\* with ascending starts (whole or fractional seconds).
C28_SnapIdempotent ==
    u_op = "resnap" => u_out.second = u_out.first

\* C29: whenever a run that downloaded a temporary audio file terminates, whether
\* by success, by inference failure or by an exception raised during
\* transcription or later, the temporary audio file has been removed.
C29_AudioRemovedAtExit ==
    pc = "done" => audio_file # "present"

-----------------------------------------------------------------------------
(* The web endpoint /api/generate and the directory chapters/ *)

MaxWebRuns == 2
WebRuns == 1..MaxWebRuns

\* the run, other than those of the requests, that wrote a file found in
\* chapters/ before the requests were made
EarlierRun == MaxWebRuns + 1

\* re.sub(r'[<>:"/\\|?*]', '', title)
InvalidFilenameChars == {"<", ">", ":", "\"", "/", "\\", "|", "?", "*"}

\* if len(title) > 100: title = title[:100]
SanitizeMaxLen == 100

RemoveChars(s, cs) ==
    LET keep(c) == c \notin cs
    IN  SelectSeq(s, keep)

\* title.replace(' ', '_')
SpacesToUnderscores(s) == [i \in 1..Len(s) |-> IF s[i] = " " THEN "_" ELSE s[i]]

sanitize_filename(title) ==
    LET t == SpacesToUnderscores(RemoveChars(title, InvalidFilenameChars))
    IN  IF Len(t) > SanitizeMaxLen THEN SubSeq(t, 1, SanitizeMaxLen) ELSE t

F_Txt == <<".","t","x","t">>
F_ChaptersTxt == <<"c","h","a","p","t","e","r","s">> \o F_Txt
F_StructuredChaptersTxt ==
    <<"_","s","t","r","u","c","t","u","r","e","d","_">> \o F_ChaptersTxt

\* generate_youtube_chapters.main: chapters/{sanitized_title}.txt, where
\* sanitized_title is the video id when get_video_info gives nothing
GeneratorFile(video, info_ok) ==
    (IF info_ok THEN sanitize_filename(video.title) ELSE video.id) \o F_Txt

\* generate_structured_chapters.main, for a video whose info has no title:
\* chapters/{video_id}_structured_chapters.txt
StructuredFile(id) == id \o F_StructuredChaptersTxt

EndsWith(s, p) == Len(s) >= Len(p) /\ SubSeq(s, Len(s) - Len(p) + 1, Len(s)) = p

\* chapters_dir.glob(f'{video_id}_*chapters.txt')
GlobMatch(id, name) ==
    LET pre == id \o <<"_">>
    IN  /\ Len(name) >= Len(pre) + Len(F_ChaptersTxt)
        /\ StartsWith(name, pre)
        /\ EndsWith(name, F_ChaptersTxt)

\* open(chapters_file, 'w'): the file of that name is created or replaced
WriteFile(dir, name, run) ==
    {f \in dir : f.name # name} \cup {[name |-> name, owner |-> run]}

Id_A == <<"v","i","d","A">>
Id_B == <<"v","i","d","B">>
Id_C == <<"v","i","d","C">>

Videos ==
    { [id |-> Id_A, title |-> <<"M","y"," ","t","a","l","k",":"," ","p","a","r","t"," ","1","?">>],
      [id |-> Id_B, title |-> <<"v","i","d","B"," ","a","l","l"," ","c","h","a","p","t","e","r","s">>],
      [id |-> Id_C, title |-> Repeat(<<"a","b"," ">>, 35)] }

\* chapters/ before the requests: empty, or holding the file of an earlier run
\* of generate_structured_chapters.py
EarlierDirs ==
    {{}} \cup {{[name |-> StructuredFile(v.id), owner |-> EarlierRun]} : v \in Videos}

\* a request that has passed the endpoint's validation
Accepted(v) ==
    [pc |-> "accepted", video |-> v, returncode |-> 0, wrote |-> FALSE,
     status |-> 0, from |-> EarlierRun]

WebInit ==
    /\ entry = "youtube"
    /\ requested = 1
    /\ url = U_Watch
    /\ via_web = TRUE
    /\ requests = 0
    /\ audio_file = "none"
    /\ pc = "web"
    /\ transcript = <<>>
    /\ duration = 0
    /\ response = NoResponse
    /\ result = None
    /\ aligned = <<>>
    /\ aligned_chapters = <<>>
    /\ chapters = <<>>
    /\ path = "none"
    /\ outcome = "running"
    /\ u_op = "none"
    /\ u_in = <<>>
    /\ u_out = <<>>
    /\ chapters_dir \in EarlierDirs
    /\ web \in [WebRuns -> {Accepted(v) : v \in Videos}]

\* subprocess.run(['python', 'generate_youtube_chapters.py', ...]): the script
\* ends with code 0 after writing its file or after printing a failure, or it
\* ends with another code without a file
RunGenerator(r) ==
    /\ web[r].pc = "accepted"
    /\ \E code \in {0, 1}, wrote \in BOOLEAN, info_ok \in BOOLEAN :
          /\ wrote => code = 0
          /\ wrote \/ info_ok
          /\ web' = [web EXCEPT ![r].pc = "exited", ![r].returncode = code,
                                ![r].wrote = wrote]
          /\ chapters_dir' =
                IF wrote
                THEN WriteFile(chapters_dir, GeneratorFile(web[r].video, info_ok), r)
                ELSE chapters_dir
    /\ UNCHANGED <<runvars, unitvars>>

\* generate_chapters() after the subprocess: the return code, the glob, and
\* chapter_files[0], any of the files that match
Respond(r) ==
    /\ web[r].pc = "exited"
    /\ LET matches == {f \in chapters_dir : GlobMatch(web[r].video.id, f.name)}
       IN  IF web[r].returncode # 0 \/ matches = {}
           THEN web' = [web EXCEPT ![r].pc = "responded", ![r].status = 500]
           ELSE \E f \in matches :
                   web' = [web EXCEPT ![r].pc = "responded", ![r].status = 200,
                                      ![r].from = f.owner]
    /\ UNCHANGED <<runvars, unitvars, chapters_dir>>

WebNext == \E r \in WebRuns : RunGenerator(r) \/ Respond(r)

WebSpec == WebInit /\ [][WebNext]_vars

\* C30: whenever the generation subprocess started by /api/generate exits with
\* code 0 after writing its chapter file, the endpoint locates that file and
\* returns its chapters; a success response never carries chapters written by a
\* different (earlier or concurrent) generation run.
C30_EndpointReturnsOwnFile ==
    \A r \in DOMAIN web :
        web[r].pc = "responded" =>
            /\ (web[r].returncode = 0 /\ web[r].wrote) =>
                   (web[r].status = 200 /\ web[r].from = r)
            /\ web[r].status = 200 => web[r].from = r

====
